---- MODULE Spec2Model ----
(***************************************************************************)
(* The browser client of chat-lecture (src/frontend/static/js/app.js) as a *)
(* state machine.  State: the three module-level variables (currentUser,   *)
(* currentLecture, authToken), localStorage's 'authToken' entry, the parts *)
(* of the DOM the handlers write (which section is shown, the chat         *)
(* interface, the loading overlay, the lecture list and the chat           *)
(* messages) and the requests in flight, each one the suspended            *)
(* continuation of an async handler.  One action per event handler and one *)
(* per continuation after an await.  JavaScript runs each handler to its   *)
(* next await without interleaving, so each such stretch is one atomic     *)
(* step.  `await fetch` and the following `await response.json()` are one  *)
(* step: no handler reads or writes shared state between the two.          *)
(*                                                                         *)
(* The server is the environment: it keeps each lecture's transcript       *)
(* status (forward moves only), issues tokens and answers each request     *)
(* with an OK response, an error response or a failure (the fetch or the   *)
(* body parsing throws).  The toasts (showToast) and the upload modal      *)
(* (showUploadModal, hideUploadModal) are written and never read by any    *)
(* handler; they are left out of the state.                                *)
(***************************************************************************)
EXTENDS Integers, Sequences, FiniteSets, Bags, TLC

\* Bounds of the model.
MaxEvents == 3
MaxHistory == 2
MaxInflight == 2

\* The lectures of the server: their ids (lecture.id, data-lecture-id).
Lectures == {"L1", "L2"}

\* No lecture id (a request that names no lecture).
NoId == "-"

\* null for authToken / localStorage entry / currentUser: tokens and users are 1, 2, ...
Null == 0

\* null for currentLecture
NullLecture == [id |-> NoId, transcript_status |-> "null"]

Outcomes == {"ok", "error", "throw"}

\* Raw values of the chat input field, as sequences of characters.
Inputs == {<< >>, <<" ">>, <<" ", "q", " ">>}

\* A missing number of seconds (undefined or null).
Missing == -1

\* timestamp_references a chat response may carry (seconds).
RefLists == {<< >>,
             <<[start_time |-> 0, end_time |-> 65],
               [start_time |-> 65, end_time |-> 600],
               [start_time |-> 6005, end_time |-> Missing]>>}

VARIABLES
    localStorage,    \* the 'authToken' entry of localStorage, Null when absent
    authToken,       \* line 4
    currentUser,     \* line 2
    currentLecture,  \* line 3
    section,         \* which of login / register / dashboard section is displayed
    chatInterface,   \* TRUE: chatInterface 'flex' and welcomeScreen 'none'
    loadingOverlay,  \* TRUE: loadingOverlay 'flex'
    lectureList,     \* children of #lecture-list and the token they were loaded with
    activeItems,     \* ids of the lecture items carrying class 'active'
    chatMessages,    \* children of #chat-messages, top to bottom
    inflight,        \* bag of requests awaiting their response
    serverStatus,    \* server: transcript_status of each lecture, "none" before upload
    issued,          \* server: number of access tokens issued
    asked,           \* number of questions submitted so far (a turn's creation order)
    events,          \* number of user events so far
    ended,           \* the tokens of the sessions handleLogout ended
    lastEvent        \* the user event handled last, with its input

vars == <<localStorage, authToken, currentUser, currentLecture, section,
          chatInterface, loadingOverlay, lectureList, activeItems,
          chatMessages, inflight, serverStatus, issued, asked, events,
          ended, lastEvent>>

authVars == <<localStorage, authToken, currentUser>>
viewVars == <<section, chatInterface, loadingOverlay>>
listVars == <<lectureList, activeItems>>
serverVars == <<serverStatus, issued>>

----------------------------------------------------------------------------
\* Pure helpers

IsWhitespace(c) == c = " "

\* String.prototype.trim
RECURSIVE TrimStart(_)
TrimStart(s) ==
    IF s # << >> /\ IsWhitespace(Head(s)) THEN TrimStart(Tail(s)) ELSE s

RECURSIVE TrimEnd(_)
TrimEnd(s) ==
    IF s # << >> /\ IsWhitespace(s[Len(s)])
    THEN TrimEnd(SubSeq(s, 1, Len(s) - 1)) ELSE s

\* The message taken as typed.
NoTrim(s) == s

Trim(s) == TrimEnd(TrimStart(s))

\* Array.prototype.reverse
Reverse(s) == [i \in 1..Len(s) |-> s[Len(s) + 1 - i]]

\* The decimal digits, as characters.
Digits == <<"0", "1", "2", "3", "4", "5", "6", "7", "8", "9">>

\* Number.prototype.toString of a non-negative integer, as a sequence of characters.
RECURSIVE toString(_)
toString(n) ==
    IF n < 10 THEN <<Digits[n + 1]>>
    ELSE toString(n \div 10) \o <<Digits[(n % 10) + 1]>>

\* The string left as it is.
noPadStart(s, targetLength, padString) == s

\* String.prototype.padStart with a one-character pad string.
RECURSIVE padStart(_, _, _)
padStart(s, targetLength, padString) ==
    IF Len(s) >= targetLength THEN s
    ELSE padStart(<<padString>> \o s, targetLength, padString)

\* `!seconds` holds of 0 and of a missing value; Math.floor leaves the
\* quotient and the remainder of integers as they are.
formatTimestamp(seconds) ==
    IF seconds = Missing \/ seconds = 0 THEN <<"0", "0", ":", "0", "0">>
    ELSE LET mins == seconds \div 60
             secs == seconds % 60
         IN padStart(toString(mins), 2, "0") \o <<":">>
            \o padStart(toString(secs), 2, "0")

\* A request in flight: the handler suspended at its await, with the values it
\* captured (the Authorization token, the lecture id, the message) and, for the
\* lecture list, the server's reply once the server has produced it.
Req(op, token, lecture, turn, text) ==
    [op |-> op, token |-> token, lecture |-> lecture, turn |-> turn,
     text |-> text, served |-> FALSE, snap |-> [l \in Lectures |-> "none"]]

\* Room for one more request in flight.
CanSend == BagCardinality(inflight) < MaxInflight

Send(r) == inflight (+) SetToBag({r})
Settle(r) == inflight (-) SetToBag({r})
Waiting(op) == {r \in BagToSet(inflight) : r.op = op}

Event(op, input) == [op |-> op, input |-> input]

----------------------------------------------------------------------------
\* DOM helpers

\* A child of #chat-messages.  kind, text and links are what is displayed;
\* lecture, turn, token and src record the request the element comes from,
\* refs the timestamp references the caller passed.
addMessageToChat(msgs, message, sender, timestampRefs, tag) ==
    Append(msgs,
           [kind |-> sender, text |-> message,
            links |-> IF sender = "bot" /\ Len(timestampRefs) > 0
                      THEN [i \in 1..Len(timestampRefs) |->
                              formatTimestamp(timestampRefs[i].start_time)
                              \o <<" ", "-", " ">> \o
                              formatTimestamp(timestampRefs[i].end_time)]
                      ELSE << >>,
            lecture |-> tag.lecture, turn |-> tag.turn,
            token |-> tag.token, src |-> tag.src, refs |-> timestampRefs])

Tag(lecture, turn, token, src) ==
    [lecture |-> lecture, turn |-> turn, token |-> token, src |-> src]

addTypingIndicator(msgs, tag) ==
    Append(msgs,
           [kind |-> "typing", text |-> <<"T">>, links |-> << >>,
            lecture |-> tag.lecture, turn |-> tag.turn,
            token |-> tag.token, src |-> tag.src, refs |-> << >>])

\* The indicator stays in the chat view.
keepTypingIndicator(msgs, t) == msgs

\* The indicator of turn t is removed if it is still a child of #chat-messages.
removeTypingIndicator(msgs, t) ==
    SelectSeq(msgs, LAMBDA e : ~(e.kind = "typing" /\ e.turn = t))

\* displayLectures: the list is rebuilt from the response, no item is active.
displayLectures(lectures, token) == [items |-> lectures, token |-> token]

EmptyList == [items |-> [l \in Lectures |-> "none"], token |-> Null]

----------------------------------------------------------------------------
\* After the module's top level (lines 1-17) and the DOMContentLoaded callback:
\* initializeApp has either sent /auth/me (a stored token) or shown the login form.
Init ==
    /\ localStorage \in {Null, 1}
    /\ authToken = localStorage
    /\ currentUser = Null
    /\ currentLecture = NullLecture
    /\ section = IF authToken # Null THEN "markup" ELSE "login"
    /\ chatInterface = FALSE
    /\ loadingOverlay = FALSE
    /\ lectureList = EmptyList
    /\ activeItems = {}
    /\ chatMessages = << >>
    /\ inflight = IF authToken # Null
                  THEN SetToBag({Req("initMe", authToken, NoId, 0, << >>)})
                  ELSE EmptyBag
    /\ serverStatus \in {[l \in Lectures |-> IF l = "L1" THEN "completed" ELSE s]
                         : s \in {"none", "pending"}}
    /\ issued = 1
    /\ asked = 0
    /\ events = 0
    /\ ended = {}
    /\ lastEvent = Event("load", << >>)

----------------------------------------------------------------------------
\* UI navigation (lines 174-206)

showLogin == section' = "login"

showRegister == section' = "register"

\* showDashboard also puts the welcome screen back in place of the chat interface.
showDashboard ==
    /\ section' = "dashboard"
    /\ chatInterface' = FALSE

\* A user event needs its element on screen.  The login and register forms
\* and their links are shown with their section; the logout button, the upload
\* form, the lecture list, the chat form and the summarize button with the
\* dashboard.  Within the dashboard nothing is assumed about what the welcome
\* screen hides: handleChatMessage and handleSummarize check currentLecture
\* themselves (lines 315, 456).
LoginShown == section = "login"
RegisterShown == section = "register"
DashboardShown == section = "dashboard"

\* loadLectures up to its await: the request carries the token of this moment.
loadLectures(bag) == bag (+) SetToBag({Req("lectures", authToken', NoId, 0, << >>)})

\* getCurrentUser's result: the user of the token on an OK response, else null.
getCurrentUser(r, outcome) == IF outcome = "ok" THEN r.token ELSE Null

\* The server accepts a request only with a token it issued.
Authorized(r) == r.token # Null

ShowLogin ==
    /\ events < MaxEvents
    /\ RegisterShown
    /\ showLogin
    /\ events' = events + 1
    /\ lastEvent' = Event("showLogin", << >>)
    /\ UNCHANGED ended
    /\ UNCHANGED <<authVars, currentLecture, chatInterface, loadingOverlay,
                   listVars, chatMessages, inflight, serverVars, asked>>

ShowRegister ==
    /\ events < MaxEvents
    /\ LoginShown
    /\ showRegister
    /\ events' = events + 1
    /\ lastEvent' = Event("showRegister", << >>)
    /\ UNCHANGED ended
    /\ UNCHANGED <<authVars, currentLecture, chatInterface, loadingOverlay,
                   listVars, chatMessages, inflight, serverVars, asked>>

----------------------------------------------------------------------------
\* Authentication (lines 26-171)

\* initializeApp after `await getCurrentUser()` (lines 29-40).
InitializeAppResume(r, outcome) ==
    /\ r \in Waiting("initMe")
    /\ outcome = "ok" => Authorized(r)
    /\ LET user == getCurrentUser(r, outcome) IN
       IF user # Null
       THEN /\ currentUser' = user
            /\ showDashboard
            /\ UNCHANGED <<authToken, localStorage>>
            /\ inflight' = loadLectures(Settle(r))
       ELSE /\ showLogin
            /\ inflight' = Settle(r)
            /\ UNCHANGED <<authVars, chatInterface>>
    /\ UNCHANGED <<ended, lastEvent>>
    /\ UNCHANGED <<currentLecture, loadingOverlay, listVars,
                   chatMessages, serverVars, asked, events>>

\* handleLogin up to `await fetch` (lines 74-88).
HandleLogin ==
    /\ events < MaxEvents
    /\ LoginShown
    /\ CanSend
    /\ loadingOverlay' = TRUE
    /\ inflight' = Send(Req("login", Null, NoId, 0, << >>))
    /\ events' = events + 1
    /\ lastEvent' = Event("handleLogin", << >>)
    /\ UNCHANGED ended
    /\ UNCHANGED <<authVars, currentLecture, section, chatInterface, listVars, chatMessages, serverVars, asked>>

\* handleLogin after the login response (lines 90-96 on OK, up to the await in
\* getCurrentUser; lines 102-109 otherwise).
HandleLoginResume(r, outcome) ==
    /\ r \in Waiting("login")
    /\ IF outcome = "ok"
       THEN /\ issued' = issued + 1
            /\ authToken' = issued'
            /\ localStorage' = authToken'
            /\ inflight' = Settle(r) (+) SetToBag({Req("loginMe", authToken', NoId, 0, << >>)})
            /\ UNCHANGED loadingOverlay
       ELSE /\ loadingOverlay' = FALSE
            /\ inflight' = Settle(r)
            /\ UNCHANGED <<authToken, localStorage, issued>>
    /\ UNCHANGED <<ended, lastEvent>>
    /\ UNCHANGED <<currentUser, currentLecture, section, chatInterface, listVars, chatMessages, serverStatus, asked, events>>

\* handleLogin after `await getCurrentUser()` (lines 96-101, 109).
HandleLoginFinish(r, outcome) ==
    /\ r \in Waiting("loginMe")
    /\ outcome = "ok" => Authorized(r)
    /\ currentUser' = getCurrentUser(r, outcome)
    /\ showDashboard
    /\ UNCHANGED <<authToken, localStorage>>
    /\ inflight' = loadLectures(Settle(r))
    /\ loadingOverlay' = FALSE
    /\ UNCHANGED <<ended, lastEvent>>
    /\ UNCHANGED <<currentLecture, listVars, chatMessages,
                   serverVars, asked, events>>

\* handleRegister up to `await fetch` (lines 113-128).
HandleRegister ==
    /\ events < MaxEvents
    /\ RegisterShown
    /\ CanSend
    /\ loadingOverlay' = TRUE
    /\ inflight' = Send(Req("register", Null, NoId, 0, << >>))
    /\ events' = events + 1
    /\ lastEvent' = Event("handleRegister", << >>)
    /\ UNCHANGED ended
    /\ UNCHANGED <<authVars, currentLecture, section, chatInterface, listVars, chatMessages, serverVars, asked>>

\* handleRegister after the response (lines 130-143).
HandleRegisterResume(r, outcome) ==
    /\ r \in Waiting("register")
    /\ IF outcome = "ok" THEN showLogin ELSE UNCHANGED section
    /\ loadingOverlay' = FALSE
    /\ inflight' = Settle(r)
    /\ UNCHANGED <<ended, lastEvent>>
    /\ UNCHANGED <<authVars, currentLecture, chatInterface, listVars,
                   chatMessages, serverVars, asked, events>>

\* handleLogout without localStorage.removeItem.
handleLogoutKeepsEntry ==
    /\ authToken' = Null
    /\ currentUser' = Null
    /\ currentLecture' = NullLecture
    /\ UNCHANGED localStorage
    /\ showLogin

handleLogout ==
    /\ authToken' = Null
    /\ currentUser' = Null
    /\ currentLecture' = NullLecture
    /\ localStorage' = Null
    /\ showLogin

HandleLogout ==
    /\ events < MaxEvents
    /\ DashboardShown
    /\ handleLogout
    /\ events' = events + 1
    /\ lastEvent' = Event("handleLogout", << >>)
    /\ ended' = ended \cup ({authToken} \ {Null})
    /\ UNCHANGED <<chatInterface, loadingOverlay, listVars,
                   chatMessages, inflight, serverVars, asked>>

----------------------------------------------------------------------------
\* Lectures (lines 209-309)

Rank(status) ==
    CASE status = "none" -> 0
      [] status = "pending" -> 1
      [] status = "processing" -> 2
      [] OTHER -> 3

\* The server moves a lecture's transcript status forward.
ServerAdvance(l) ==
    /\ serverStatus[l] \in {"pending", "processing"}
    /\ \E s \in IF serverStatus[l] = "pending" THEN {"processing"}
                ELSE {"completed", "failed"} :
          serverStatus' = [serverStatus EXCEPT ![l] = s]
    /\ UNCHANGED <<ended, lastEvent>>
    /\ UNCHANGED <<authVars, currentLecture, viewVars, listVars, chatMessages,
                   inflight, issued, asked, events>>

\* The server reads the lectures for a GET /lectures/ request; the response
\* reaches the client later.
ServeLectures(r) ==
    /\ r \in Waiting("lectures")
    /\ ~r.served
    /\ Authorized(r)
    /\ inflight' = Settle(r) (+) SetToBag({[r EXCEPT !.served = TRUE,
                                                     !.snap = serverStatus]})
    /\ UNCHANGED <<ended, lastEvent>>
    /\ UNCHANGED <<authVars, currentLecture, viewVars, listVars, chatMessages,
                   serverVars, asked, events>>

\* loadLectures after the response (lines 217-226).
LoadLecturesResume(r, outcome) ==
    /\ r \in Waiting("lectures")
    /\ outcome = "ok" => r.served
    /\ IF outcome = "ok"
       THEN /\ lectureList' = displayLectures(r.snap, r.token)
            /\ activeItems' = {}
       ELSE UNCHANGED listVars
    /\ inflight' = Settle(r)
    /\ UNCHANGED <<ended, lastEvent>>
    /\ UNCHANGED <<authVars, currentLecture, viewVars, chatMessages,
                   serverVars, asked, events>>

\* The lecture object a list item's click listener holds.
ItemLecture(l) == [id |-> l, transcript_status |-> lectureList.items[l]]

\* loadChatHistory up to its await.
loadChatHistory(lectureId) == Send(Req("history", authToken, lectureId, 0, << >>))

selectLecture(lecture) ==
    /\ currentLecture' = lecture
    /\ activeItems' = {lecture.id}
    /\ IF lecture.transcript_status = "completed"
       THEN /\ chatInterface' = TRUE
            /\ inflight' = loadChatHistory(lecture.id)
       ELSE UNCHANGED <<chatInterface, inflight>>

\* A click on the item of lecture l in the list.
SelectLecture(l) ==
    /\ events < MaxEvents
    /\ DashboardShown
    /\ lectureList.items[l] # "none"
    /\ lectureList.items[l] = "completed" => CanSend
    /\ selectLecture(ItemLecture(l))
    /\ events' = events + 1
    /\ lastEvent' = Event("selectLecture", << >>)
    /\ UNCHANGED ended
    /\ UNCHANGED <<authVars, section, loadingOverlay, lectureList,
                   chatMessages, serverVars, asked>>

\* handleUpload up to `await fetch` (lines 277-293).
HandleUpload ==
    /\ events < MaxEvents
    /\ DashboardShown
    /\ CanSend
    /\ loadingOverlay' = TRUE
    /\ inflight' = Send(Req("upload", authToken, NoId, 0, << >>))
    /\ events' = events + 1
    /\ lastEvent' = Event("handleUpload", << >>)
    /\ UNCHANGED ended
    /\ UNCHANGED <<authVars, currentLecture, section, chatInterface, listVars, chatMessages, serverVars, asked>>

\* Lecture ids the server has not used yet.
FreeIds == {l \in Lectures : serverStatus[l] = "none"}

\* handleUpload after the response (lines 295-308).  An accepted upload creates
\* a lecture in status pending.
HandleUploadResume(r, outcome) ==
    /\ r \in Waiting("upload")
    /\ outcome = "ok" => Authorized(r) /\ FreeIds # {}
    /\ IF outcome = "ok"
       THEN /\ serverStatus' =
                 [serverStatus EXCEPT ![CHOOSE l \in FreeIds : TRUE] = "pending"]
            /\ UNCHANGED authToken
            /\ inflight' = loadLectures(Settle(r))
       ELSE /\ inflight' = Settle(r)
            /\ UNCHANGED <<serverStatus, authToken>>
    /\ loadingOverlay' = FALSE
    /\ UNCHANGED <<ended, lastEvent>>
    /\ UNCHANGED <<localStorage, currentUser, currentLecture, section, chatInterface,
                   listVars, chatMessages, issued, asked, events>>

----------------------------------------------------------------------------
\* Chat (lines 312-485)

\* handleChatMessage up to `await fetch` (lines 312-343).
handleChatMessage(input) ==
    LET message == Trim(input) IN
    IF currentLecture = NullLecture \/ message = << >>
    THEN UNCHANGED <<chatMessages, inflight, asked>>
    ELSE LET tag == Tag(currentLecture.id, asked + 1, authToken, "ask") IN
         /\ chatMessages' =
              addTypingIndicator(
                  addMessageToChat(chatMessages, message, "user", << >>, tag), tag)
         /\ inflight' = Send(Req("ask", authToken, currentLecture.id, asked + 1, message))
         /\ asked' = asked + 1

HandleChatMessage(input) ==
    /\ events < MaxEvents
    /\ DashboardShown
    /\ handleChatMessage(input)
    /\ inflight' # inflight => CanSend
    /\ events' = events + 1
    /\ lastEvent' = Event("handleChatMessage", input)
    /\ UNCHANGED ended
    /\ UNCHANGED <<authVars, currentLecture, viewVars, listVars, serverVars>>

\* The server answers an ask or a summarize request only for a ready lecture.
Ready(r) == Authorized(r) /\ serverStatus[r.lecture] = "completed"

\* handleChatMessage after the response (lines 345-358).
HandleChatMessageResume(r, outcome, refs) ==
    /\ r \in Waiting("ask")
    /\ outcome = "ok" => Ready(r)
    /\ outcome # "ok" => refs = << >>
    /\ chatMessages' =
         IF outcome = "ok"
         THEN addMessageToChat(removeTypingIndicator(chatMessages, r.turn),
                               <<"r">>, "bot", refs,
                               Tag(r.lecture, r.turn, r.token, "ask"))
         ELSE removeTypingIndicator(chatMessages, r.turn)
    /\ inflight' = Settle(r)
    /\ UNCHANGED <<ended, lastEvent>>
    /\ UNCHANGED <<authVars, currentLecture, viewVars, listVars, serverVars,
                   asked, events>>

\* GET /chat/history/<id> as getHistory returns it: n turns, oldest first.
History(l, n) ==
    [i \in 1..n |-> [lecture_id |-> l, created |-> i,
                     user_message |-> <<"q">>, bot_response |-> <<"r">>,
                     timestamp_references |->
                         IF i = 1 THEN << >>
                         ELSE <<[start_time |-> 65, end_time |-> 600]>>]]

\* history.reverse().forEach(...) (lines 445-448)
RECURSIVE ShowHistory(_, _, _)
ShowHistory(msgs, history, token) ==
    IF history = << >> THEN msgs
    ELSE LET chat == Head(history)
             tag == Tag(chat.lecture_id, chat.created, token, "history")
         IN ShowHistory(
                addMessageToChat(
                    addMessageToChat(msgs, chat.user_message, "user", << >>, tag),
                    chat.bot_response, "bot", chat.timestamp_references, tag),
                Tail(history), token)

\* loadChatHistory after the response (lines 440-452).
LoadChatHistoryResume(r, outcome, n) ==
    /\ r \in Waiting("history")
    /\ outcome = "ok" => Authorized(r)
    /\ outcome # "ok" => n = 0
    /\ chatMessages' =
         IF outcome = "ok"
         THEN ShowHistory(<< >>, Reverse(History(r.lecture, n)), r.token)
         ELSE chatMessages
    /\ inflight' = Settle(r)
    /\ UNCHANGED <<ended, lastEvent>>
    /\ UNCHANGED <<authVars, currentLecture, viewVars, listVars, serverVars,
                   asked, events>>

\* handleSummarize up to `await fetch` (lines 455-469).
handleSummarize ==
    IF currentLecture = NullLecture
    THEN UNCHANGED <<loadingOverlay, inflight>>
    ELSE /\ loadingOverlay' = TRUE
         /\ inflight' = Send(Req("summarize", authToken, currentLecture.id, 0, << >>))

HandleSummarize ==
    /\ events < MaxEvents
    /\ DashboardShown
    /\ handleSummarize
    /\ inflight' # inflight => CanSend
    /\ events' = events + 1
    /\ lastEvent' = Event("handleSummarize", << >>)
    /\ UNCHANGED ended
    /\ UNCHANGED <<authVars, currentLecture, section, chatInterface, listVars, chatMessages, serverVars, asked>>

\* handleSummarize after the response (lines 471-484).
HandleSummarizeResume(r, outcome) ==
    /\ r \in Waiting("summarize")
    /\ outcome = "ok" => Ready(r)
    /\ chatMessages' =
         IF outcome = "ok"
         THEN LET tag == Tag(r.lecture, 0, r.token, "summary") IN
              addMessageToChat(
                  addMessageToChat(chatMessages, <<"s">>, "user", << >>, tag),
                  <<"r">>, "bot", << >>, tag)
         ELSE chatMessages
    /\ loadingOverlay' = FALSE
    /\ inflight' = Settle(r)
    /\ UNCHANGED <<ended, lastEvent>>
    /\ UNCHANGED <<authVars, currentLecture, section, chatInterface, listVars, serverVars, asked, events>>

----------------------------------------------------------------------------
Next ==
    \/ ShowLogin
    \/ ShowRegister
    \/ HandleLogin
    \/ HandleRegister
    \/ HandleLogout
    \/ HandleUpload
    \/ HandleSummarize
    \/ \E l \in Lectures : SelectLecture(l)
    \/ \E input \in Inputs : HandleChatMessage(input)
    \/ \E l \in Lectures : ServerAdvance(l)
    \/ \E r \in BagToSet(inflight) : ServeLectures(r)
    \/ \E r \in BagToSet(inflight), outcome \in Outcomes :
          InitializeAppResume(r, outcome)
    \/ \E r \in BagToSet(inflight), outcome \in Outcomes :
          HandleLoginResume(r, outcome)
    \/ \E r \in BagToSet(inflight), outcome \in Outcomes :
          HandleLoginFinish(r, outcome)
    \/ \E r \in BagToSet(inflight), outcome \in Outcomes :
          HandleRegisterResume(r, outcome)
    \/ \E r \in BagToSet(inflight), outcome \in Outcomes :
          LoadLecturesResume(r, outcome)
    \/ \E r \in BagToSet(inflight), outcome \in Outcomes :
          HandleUploadResume(r, outcome)
    \/ \E r \in BagToSet(inflight), outcome \in Outcomes :
          HandleSummarizeResume(r, outcome)
    \/ \E r \in BagToSet(inflight), outcome \in Outcomes, refs \in RefLists :
          HandleChatMessageResume(r, outcome, refs)
    \/ \E r \in BagToSet(inflight), outcome \in Outcomes, n \in 0..MaxHistory :
          LoadChatHistoryResume(r, outcome, n)

Spec == Init /\ [][Next]_vars

----------------------------------------------------------------------------
\* Claims

Shown(l) == lectureList.items[l] # "none"

\* The requests of kind op that this step sends.
Sent(op) ==
    {r \in BagToSet(inflight') :
        r.op = op /\ CopiesIn(r, inflight') > CopiesIn(r, inflight)}

\* C1: every chat ask and every summarize request the client sends names the
\* lecture held in currentLecture, and the client knows that lecture's
\* transcript_status as completed.
C1_RequestsOnlyForCompleted ==
    [][\A r \in Sent("ask") \cup Sent("summarize") :
          /\ r.lecture = currentLecture.id
          /\ currentLecture.transcript_status = "completed"]_vars

\* C2: the turns loaded from the history are displayed oldest first: a turn
\* created earlier is above every turn created later.
C2_HistoryOldestFirst ==
    \A i, j \in 1..Len(chatMessages) :
        (/\ i < j
         /\ chatMessages[i].src = "history"
         /\ chatMessages[j].src = "history")
        => chatMessages[i].turn <= chatMessages[j].turn

\* The bot message of turn t is displayed.
Answered(t) ==
    \E j \in 1..Len(chatMessages) :
        /\ chatMessages[j].src = "ask"
        /\ chatMessages[j].kind = "bot"
        /\ chatMessages[j].turn = t

\* The ask of turn t awaits its response.
AskInFlight(t) == \E r \in Waiting("ask") : r.turn = t

\* C3: once an ask has settled, no partial turn is displayed: a user message
\* of a turn whose ask is no longer in flight has its bot response displayed
\* (an ask settles without a bot message exactly when it failed).
C3_NoPartialTurnAfterFailure ==
    \A i \in 1..Len(chatMessages) :
        (chatMessages[i].src = "ask" /\ chatMessages[i].kind = "user")
        => (AskInFlight(chatMessages[i].turn) \/ Answered(chatMessages[i].turn))

\* C4: the status shown for a lecture in the lecture list never moves back:
\* in every step, a lecture shown before and after has a status of the same
\* or a later rank.
C4_ShownStatusMovesForward ==
    [][\A l \in Lectures :
          (Shown(l) /\ lectureList'.items[l] # "none")
          => Rank(lectureList'.items[l]) >= Rank(lectureList.items[l])]_vars

\* The user and bot messages of asked turns, top to bottom.
AskedMessages ==
    SelectSeq(chatMessages, LAMBDA e : e.src = "ask" /\ e.kind # "typing")

\* C5: the messages of asked turns are displayed turn by turn in the order
\* the questions were submitted: no message of an earlier turn is below a
\* message of a later turn, so each bot response follows its own user message.
C5_TurnsInSubmissionOrder ==
    \A i, j \in 1..Len(AskedMessages) :
        i < j => AskedMessages[i].turn <= AskedMessages[j].turn

ChatVisible == DashboardShown /\ chatInterface

\* C6: whenever the chat interface is visible, every message in the chat view
\* belongs to the lecture held in currentLecture.
C6_MessagesOfCurrentLecture ==
    ChatVisible =>
        \A i \in 1..Len(chatMessages) : chatMessages[i].lecture = currentLecture.id

\* C7: after handleLogout, whenever the dashboard is visible in a later
\* session, the lecture list and the chat messages displayed were loaded with
\* that session's token.
C7_NoDataOfLoggedOutSession ==
    (ended # {} /\ DashboardShown /\ authToken \notin ended \cup {Null}) =>
        /\ (\E l \in Lectures : Shown(l)) => lectureList.token = authToken
        /\ chatInterface =>
              \A i \in 1..Len(chatMessages) : chatMessages[i].token = authToken

\* C8: whenever the dashboard section is visible, currentUser is a user
\* returned by /auth/me, never null.
C8_DashboardHasUser == DashboardShown => currentUser # Null

\* Inputs that are empty after trimming: whitespace only.
BlankInputs == {input \in Inputs : \A i \in 1..Len(input) : input[i] = " "}

\* This step is the user event op.
Handles(op) == events' = events + 1 /\ lastEvent'.op = op

\* C9: handleChatMessage with no lecture selected or with a message that is
\* empty after trimming, and handleSummarize with no lecture selected, send no
\* request and leave the chat view and the loading overlay as they are.
C9_NothingSentWithoutLectureOrMessage ==
    [][((/\ Handles("handleChatMessage")
         /\ (currentLecture = NullLecture \/ lastEvent'.input \in BlankInputs))
        \/ (Handles("handleSummarize") /\ currentLecture = NullLecture))
       => /\ inflight' = inflight
          /\ chatMessages' = chatMessages
          /\ loadingOverlay' = loadingOverlay]_vars

\* A whitespace-only message was submitted with a lecture selected and
\* nothing was sent or displayed.
C9_Witness ==
    /\ lastEvent = Event("handleChatMessage", <<" ">>)
    /\ currentLecture # NullLecture
    /\ events = 2
    /\ chatMessages = << >>
    /\ Waiting("ask") = {}

\* This step is the continuation of handleLogin on an OK login response.
LoginSucceeds ==
    /\ issued' = issued + 1
    /\ authToken' = issued'
    /\ localStorage' = authToken'

LogoutClears ==
    /\ authToken' = Null
    /\ localStorage' = Null
    /\ currentUser' = Null
    /\ currentLecture' = NullLecture

\* C10: authToken always equals the 'authToken' entry of localStorage; a step
\* changes either only as a successful login (both become the new token) or as
\* handleLogout, and handleLogout clears both with currentUser and currentLecture.
C10_TokenMatchesStorage ==
    /\ [](authToken = localStorage)
    /\ [][/\ (authToken' # authToken \/ localStorage' # localStorage)
             => (LoginSucceeds \/ (Handles("handleLogout") /\ LogoutClears))
          /\ Handles("handleLogout") => LogoutClears]_vars

\* A login succeeded and the user then logged out.
C10_Witness ==
    /\ issued > 1
    /\ lastEvent.op = "handleLogout"
    /\ authToken = Null
    /\ localStorage = Null

\* The typing indicators the chat view holds.
TypingIndicators == {i \in 1..Len(chatMessages) : chatMessages[i].kind = "typing"}

\* C11: a typing indicator is in the chat view only while the ask that added
\* it is awaiting its response: once the request has settled, on an OK
\* response, an error response or an exception, its indicator is gone, and
\* with no ask in flight the chat view holds no typing indicator.
C11_TypingOnlyWhileAskInFlight ==
    \A i \in TypingIndicators : AskInFlight(chatMessages[i].turn)

\* An ask has failed: its message is displayed, unanswered, and no ask is in flight.
C11_Witness ==
    /\ Waiting("ask") = {}
    /\ \E i \in 1..Len(chatMessages) :
          /\ chatMessages[i].kind = "user"
          /\ chatMessages[i].src = "ask"
          /\ ~Answered(chatMessages[i].turn)
    /\ TypingIndicators = {}

\* The requests of handleLogin (its login call and the getCurrentUser call
\* after it), handleRegister, handleUpload and handleSummarize in flight.
OverlayRequests ==
    {r \in BagToSet(inflight) :
        r.op \in {"login", "loginMe", "register", "upload", "summarize"}}

\* C12: the loading overlay is visible exactly while handleLogin,
\* handleRegister, handleUpload or handleSummarize is in flight; it is not
\* hidden while one of them still awaits its response.
C12_OverlayWhileInFlight == loadingOverlay <=> OverlayRequests # {}

\* C13: with a lecture selected and the dashboard visible, exactly one list
\* item is marked active, it is the item of currentLecture, and the status
\* shown for it is currentLecture's transcript_status.
C13_ActiveItemIsCurrentLecture ==
    (DashboardShown /\ currentLecture # NullLecture)
        => /\ activeItems = {currentLecture.id}
           /\ lectureList.items[currentLecture.id] = currentLecture.transcript_status

IsDigit(c) == c \in {"0", "1", "2", "3", "4", "5", "6", "7", "8", "9"}

DigitValue(c) ==
    CASE c = "0" -> 0 [] c = "1" -> 1 [] c = "2" -> 2 [] c = "3" -> 3
      [] c = "4" -> 4 [] c = "5" -> 5 [] c = "6" -> 6 [] c = "7" -> 7
      [] c = "8" -> 8 [] c = "9" -> 9

\* The number a sequence of digits reads as.
RECURSIVE Value(_)
Value(ds) ==
    IF ds = << >> THEN 0
    ELSE Value(SubSeq(ds, 1, Len(ds) - 1)) * 10 + DigitValue(ds[Len(ds)])

\* field is n in decimal, zero-padded to two digits.
IsPadded(field, n) ==
    /\ Len(field) >= 2
    /\ \A i \in 1..Len(field) : IsDigit(field[i])
    /\ Value(field) = n
    /\ Len(field) > 2 => field[1] # "0"

\* label is 'MM:SS' for s seconds, '00:00' for a missing value.
IsMMSS(label, s) ==
    LET n == IF s = Missing THEN 0 ELSE s IN
    \E p \in 1..Len(label) :
        /\ label[p] = ":"
        /\ IsPadded(SubSeq(label, 1, p - 1), n \div 60)
        /\ IsPadded(SubSeq(label, p + 1, Len(label)), n % 60)

\* link is 'MM:SS - MM:SS' for the span ref.
IsLink(link, ref) ==
    \E k \in 1..(Len(link) - 2) :
        /\ SubSeq(link, k, k + 2) = <<" ", "-", " ">>
        /\ IsMMSS(SubSeq(link, 1, k - 1), ref.start_time)
        /\ IsMMSS(SubSeq(link, k + 3, Len(link)), ref.end_time)

\* C14: a bot message shows one link per cited span, in the order of the
\* references it was given, each labelled 'MM:SS - MM:SS' with minutes
\* floor(s/60) and seconds s mod 60 zero-padded to two digits ('00:00' for 0
\* or a missing value); a user message, a typing indicator and a bot message
\* without references show no links.
C14_LinksPerCitedSpan ==
    \A i \in 1..Len(chatMessages) :
        LET e == chatMessages[i] IN
        IF e.kind = "bot"
        THEN /\ Len(e.links) = Len(e.refs)
             /\ \A k \in 1..Len(e.refs) : IsLink(e.links[k], e.refs[k])
        ELSE e.links = << >>

\* An answer citing three spans (one of 100 minutes, one with no end time)
\* is displayed under its question, the question without links.
C14_Witness ==
    \E i \in 2..Len(chatMessages) :
        /\ chatMessages[i].kind = "bot"
        /\ chatMessages[i].src = "ask"
        /\ Len(chatMessages[i].links) = 3
        /\ \E k \in 1..3 : chatMessages[i].refs[k].start_time >= 6000
        /\ \E k \in 1..3 : chatMessages[i].refs[k].end_time = Missing
        /\ \E j \in 1..(i - 1) :
              /\ chatMessages[j].kind = "user"
              /\ chatMessages[j].turn = chatMessages[i].turn
              /\ chatMessages[j].links = << >>

====
